---- MODULE Spec2Model ----
(***************************************************************************)
(* Model of pdns_auth_zone.py: an Ansible module that reconciles one zone  *)
(* of a PowerDNS Authoritative server (properties and metadata) with the   *)
(* task's parameters, through the server's HTTP API.                        *)
(*                                                                         *)
(* The remote server holds one zone slot (the zone named by the task).     *)
(* A task is started with its parameters (Start) and main() runs to its   *)
(* end (Main); the same task may then be run again (Again).                *)
(***************************************************************************)
EXTENDS Integers, Sequences, FiniteSets, TLC

VARIABLES remote, pc, params, before, calls, result, history, failing

vars == <<remote, pc, params, before, calls, result, history, failing>>

----------------------------------------------------------------------------
(* Bounds of the model.                                                    *)

\* longest list a task parameter or a remote record holds
MaxLen == 2
\* number of consecutive runs of one task the re-run specification follows
MaxRuns == 2

\* the remote calls of a run, counted from 1, among which one may fail
MaxFailAt == 8

----------------------------------------------------------------------------
(* Python values.  A value is a record tagged with its type, so that       *)
(* Python's ==, truthiness and `or` are computed as Python computes them.  *)

PyNone == [t |-> "none", b |-> FALSE, l |-> <<>>, s |-> ""]
PyBool(x) == [t |-> "bool", b |-> x, l |-> <<>>, s |-> ""]
PyList(x) == [t |-> "list", b |-> FALSE, l |-> x, s |-> ""]
PyStr(x) == [t |-> "str", b |-> FALSE, l |-> <<>>, s |-> x]

\* bool(v)
Truthy(v) ==
    CASE v.t = "none" -> FALSE
      [] v.t = "bool" -> v.b
      [] v.t = "list" -> Len(v.l) # 0
      [] v.t = "str" -> v.s # ""

\* a or b
PyOr(a, b) == IF Truthy(a) THEN a ELSE b

\* The strings that occur in lists, in Python's string order
\* ("1.1.1.1" < "::1" since "1" < ":").
Elems == <<"1.1.1.1", "::1">>

Rank(s) == CHOOSE i \in 1..Len(Elems) : Elems[i] = s

ElemSet == {Elems[i] : i \in 1..Len(Elems)}

Lists == UNION {[1..n -> ElemSet] : n \in 0..MaxLen}

RECURSIVE Insert(_, _)
Insert(x, sorted) ==
    IF sorted = <<>> THEN <<x>>
    ELSE IF Rank(x) <= Rank(Head(sorted)) THEN <<x>> \o sorted
    ELSE <<Head(sorted)>> \o Insert(x, Tail(sorted))

\* the contents of a list after list.sort()
RECURSIVE Sorted(_)
Sorted(l) == IF l = <<>> THEN <<>> ELSE Insert(Head(l), Sorted(Tail(l)))

Range(l) == {l[i] : i \in 1..Len(l)}

IsPermutation(a, b) ==
    /\ Len(a) = Len(b)
    /\ \A x \in Range(a) \cup Range(b) :
         Cardinality({i \in 1..Len(a) : a[i] = x})
           = Cardinality({i \in 1..Len(b) : b[i] = x})

----------------------------------------------------------------------------
(* The metadata registry: the Metadata*("KIND") statements, in order.      *)

Registry ==
    << [kind |-> "ALLOW-AXFR-FROM", meta |-> "allow_axfr_from", variant |-> "ListValue"],
       [kind |-> "ALLOW-DNSUPDATE-FROM", meta |-> "allow_dnsupdate_from", variant |-> "ListValue"],
       [kind |-> "ALSO-NOTIFY", meta |-> "also_notify", variant |-> "ListValue"],
       [kind |-> "AXFR-SOURCE", meta |-> "axfr_source", variant |-> "StringValue"],
       [kind |-> "FORWARD-DNSUPDATE", meta |-> "forward_dnsupdate", variant |-> "BinaryPresence"],
       [kind |-> "GSS-ACCEPTOR-PRINCIPAL", meta |-> "gss_acceptor_principal", variant |-> "StringValue"],
       [kind |-> "GSS-ALLOW-AXFR-PRINCIPAL", meta |-> "gss_allow_axfr_principal", variant |-> "StringValue"],
       [kind |-> "IXFR", meta |-> "ixfr", variant |-> "BinaryValue"],
       [kind |-> "NOTIFY-DNSUPDATE", meta |-> "notify_dnsupdate", variant |-> "BinaryValue"],
       [kind |-> "PUBLISH-CDNSKEY", meta |-> "publish_cdnskey", variant |-> "BinaryValue"],
       [kind |-> "PUBLISH-CDS", meta |-> "publish_cds", variant |-> "ListValue"],
       [kind |-> "SLAVE-RENOTIFY", meta |-> "slave_renotify", variant |-> "TernaryValue"],
       [kind |-> "SOA-EDIT-DNSUPDATE", meta |-> "soa_edit_dnsupdate", variant |-> "StringValue"],
       [kind |-> "TSIG-ALLOW-DNSUPDATE", meta |-> "tsig_allow_dnsupdate", variant |-> "ListValue"] >>

RegIdx == 1..Len(Registry)

map_by_kind == {Registry[i].kind : i \in RegIdx}

map_by_meta == {Registry[i].meta : i \in RegIdx}

\* Metadata.by_meta: the registered object, or NoObject for Python's None
NoObject == [kind |-> "", meta |-> "", variant |-> "none"]

by_meta(meta) ==
    IF meta \in map_by_meta
    THEN Registry[CHOOSE i \in RegIdx : Registry[i].meta = meta]
    ELSE NoObject

by_kind(kind) ==
    IF kind \in map_by_kind
    THEN Registry[CHOOSE i \in RegIdx : Registry[i].kind = kind]
    ELSE NoObject

\* <variant>.default()
default(m) ==
    CASE m.variant = "BinaryValue" -> PyBool(FALSE)
      [] m.variant = "BinaryPresence" -> PyBool(FALSE)
      [] m.variant = "TernaryValue" -> PyNone
      [] m.variant = "ListValue" -> PyList(<<>>)
      [] m.variant = "StringValue" -> PyStr("")

\* the keys of the "metadata" option of the argument spec, in order
MetaOptions ==
    << "allow_axfr_from", "allow_dnsupdate_from", "also_notify", "axfr_source",
       "forward_dnsupdate", "gss_acceptor_principal", "gss_allow_axfr_principal",
       "ixfr", "notify_dnsupdate", "publish_cndskey", "publish_cds",
       "slave_renotify", "soa_edit_dnsupdate", "tsig_allow_dnsupdate" >>

MetaOptionSet == {MetaOptions[i] : i \in 1..Len(MetaOptions)}

\* the fields of the zone that build_zone_result copies into the metadata
ServerFields == {"api_rectify", "nsec3narrow", "nsec3param", "soa_edit", "soa_edit_api"}

----------------------------------------------------------------------------
(* The remote server: the zone named by the task, as the API shows it.     *)

\* the kinds the server may hold records of; the last one is not registered
RemoteKinds == map_by_kind \cup {"TSIG-ALLOW-AXFR"}

NoRecord == [has |-> FALSE, md |-> <<>>]

Record(md) == [has |-> TRUE, md |-> md]

NoMeta == [k \in RemoteKinds |-> NoRecord]

ZoneName == "d1.example."

NoZone ==
    [exists |-> FALSE, kind |-> "", account |-> "", masters |-> <<>>,
     serial |-> 0, dnssec |-> FALSE, api_rectify |-> FALSE, nsec3narrow |-> FALSE,
     nsec3param |-> "", soa_edit |-> "", soa_edit_api |-> "", meta |-> NoMeta]

\* zone_struct of createZone and putZone: a dict, as its keys and values
ZoneStruct(keys, kind, account, nameservers, masters) ==
    [keys |-> keys, kind |-> kind, account |-> account,
     nameservers |-> nameservers, masters |-> masters]

EmptyStruct == ZoneStruct({}, "", "", PyNone, PyNone)

\* one call of the API
Call(op, kind, md, zs) == [op |-> op, kind |-> kind, md |-> md, zs |-> zs]

ReadOps == {"listZones", "listZone", "listMetadata"}

MetadataOps == {"modifyMetadata", "deleteMetadata"}

MutatingOps ==
    {"createZone", "putZone", "deleteZone", "notifyZone", "axfrRetrieveZone"}
      \cup MetadataOps

\* what the server holds after a successful call
Effect(r, c) ==
    CASE c.op = "createZone" ->
           [NoZone EXCEPT
              !.exists = TRUE,
              !.kind = IF "kind" \in c.zs.keys THEN c.zs.kind ELSE "Native",
              !.account = IF "account" \in c.zs.keys THEN c.zs.account ELSE "",
              !.masters = IF "masters" \in c.zs.keys THEN c.zs.masters.l ELSE <<>>,
              !.serial = 1,
              !.soa_edit_api = "DEFAULT"]
      [] c.op = "putZone" ->
           [r EXCEPT
              !.kind = IF "kind" \in c.zs.keys THEN c.zs.kind ELSE @,
              !.account = IF "account" \in c.zs.keys THEN c.zs.account ELSE @,
              !.masters = IF "masters" \in c.zs.keys THEN c.zs.masters.l ELSE @]
      [] c.op = "deleteZone" -> NoZone
      [] c.op = "modifyMetadata" -> [r EXCEPT !.meta[c.kind] = Record(c.md)]
      [] c.op = "deleteMetadata" -> [r EXCEPT !.meta[c.kind] = NoRecord]
      [] OTHER -> r

\* The state of a run of main(): the server, the calls issued so far, and
\* whether a call has raised.  failAt is the number of the call that the
\* server fails (0: none); after it main() issues nothing more.
Ctx(r, failAt) == [remote |-> r, calls |-> <<>>, failed |-> FALSE, failAt |-> failAt]

Api_retry(ctx, c) ==
    IF ctx.failed THEN ctx
    ELSE IF Len(ctx.calls) + 1 = ctx.failAt
         THEN [ctx EXCEPT !.calls = Append(Append(@, c), c), !.remote = Effect(@, c)]
         ELSE [ctx EXCEPT !.calls = Append(@, c), !.remote = Effect(@, c)]

Api_rollback(ctx, c) ==
    IF ctx.failed THEN ctx
    ELSE IF Len(ctx.calls) + 1 = ctx.failAt
         THEN [ctx EXCEPT !.calls = Append(@, c), !.failed = TRUE,
                          !.remote = IF \E i \in 1..Len(ctx.calls) :
                                          ctx.calls[i].op = "createZone"
                                     THEN NoZone ELSE @]
         ELSE [ctx EXCEPT !.calls = Append(@, c), !.remote = Effect(@, c)]

\* <wrapper>.<op>(...).result()
Api(ctx, c) ==
    IF ctx.failed THEN ctx
    ELSE IF Len(ctx.calls) + 1 = ctx.failAt
         THEN [ctx EXCEPT !.calls = Append(@, c), !.failed = TRUE]
         ELSE [ctx EXCEPT !.calls = Append(@, c), !.remote = Effect(@, c)]

modifyMetadata(ctx, kind, md) == Api(ctx, Call("modifyMetadata", kind, md, EmptyStruct))

deleteMetadata(ctx, kind) == Api(ctx, Call("deleteMetadata", kind, <<>>, EmptyStruct))

ZoneCall(ctx, op, zs) == Api(ctx, Call(op, "", <<>>, zs))

----------------------------------------------------------------------------
(* The metadata variants.                                                  *)

\* <variant>.result_from_api: the value decoded from a record of the server
result_from_api(m, md) ==
    CASE m.variant = "BinaryValue" -> PyBool(md[1] = "1")
      [] m.variant = "BinaryPresence" -> PyBool(TRUE)
      [] m.variant = "TernaryValue" -> PyBool(md[1] = "1")
      [] m.variant = "ListValue" -> PyList(md)
      [] m.variant = "StringValue" -> PyStr(md[1])

\* MetadataBinaryValue.set(value, api)
BinaryValue_set(m, value, ctx) ==
    IF Truthy(value) THEN modifyMetadata(ctx, m.kind, <<"1">>) ELSE ctx

\* MetadataBinaryPresence.set(value, api)
BinaryPresence_set(m, value, ctx) ==
    IF Truthy(value) THEN modifyMetadata(ctx, m.kind, <<"">>) ELSE ctx

\* MetadataTernaryValue.set(value, api)
TernaryValue_set(m, value, ctx) ==
    IF value # PyNone
    THEN IF Truthy(value)
         THEN modifyMetadata(ctx, m.kind, <<"1">>)
         ELSE modifyMetadata(ctx, m.kind, <<"0">>)
    ELSE ctx

\* MetadataListValue.set(value, api)
ListValue_set(m, value, ctx) ==
    IF Len(value.l) # 0 THEN modifyMetadata(ctx, m.kind, value.l) ELSE ctx

\* MetadataStringValue.set(value, api)
StringValue_set(m, value, ctx) ==
    IF Truthy(value) THEN modifyMetadata(ctx, m.kind, <<value.s>>) ELSE ctx

\* m.set(value, api), by the class of m
set(m, value, ctx) ==
    CASE m.variant = "BinaryValue" -> BinaryValue_set(m, value, ctx)
      [] m.variant = "BinaryPresence" -> BinaryPresence_set(m, value, ctx)
      [] m.variant = "TernaryValue" -> TernaryValue_set(m, value, ctx)
      [] m.variant = "ListValue" -> ListValue_set(m, value, ctx)
      [] m.variant = "StringValue" -> StringValue_set(m, value, ctx)

\* what update() returns: the run after its calls, and its return value
Updated(ctx, ret) == [ctx |-> ctx, ret |-> ret]

\* BinaryValue_update writing "0" for a false value
BinaryValue_update_zero(m, oldval, newval, ctx) ==
    IF newval = oldval THEN Updated(ctx, FALSE)
    ELSE IF Truthy(newval)
         THEN Updated(modifyMetadata(ctx, m.kind, <<"1">>), TRUE)
         ELSE Updated(modifyMetadata(ctx, m.kind, <<"0">>), TRUE)

\* MetadataBinaryValue.update(oldval, newval, api)
BinaryValue_update(m, oldval, newval, ctx) ==
    IF newval = oldval THEN Updated(ctx, FALSE)
    ELSE IF Truthy(newval)
         THEN Updated(modifyMetadata(ctx, m.kind, <<"1">>), TRUE)
         ELSE Updated(deleteMetadata(ctx, m.kind), TRUE)

\* MetadataBinaryPresence.update(oldval, newval, api)
BinaryPresence_update(m, oldval, newval, ctx) ==
    IF newval = oldval THEN Updated(ctx, FALSE)
    ELSE IF Truthy(newval)
         THEN Updated(modifyMetadata(ctx, m.kind, <<"">>), TRUE)
         ELSE Updated(deleteMetadata(ctx, m.kind), TRUE)

\* MetadataTernaryValue.update(oldval, newval, api)
TernaryValue_update(m, oldval, newval, ctx) ==
    IF newval = oldval THEN Updated(ctx, FALSE)
    ELSE IF newval # PyNone
         THEN IF Truthy(newval)
              THEN Updated(modifyMetadata(ctx, m.kind, <<"1">>), TRUE)
              ELSE Updated(modifyMetadata(ctx, m.kind, <<"0">>), TRUE)
         ELSE Updated(deleteMetadata(ctx, m.kind), TRUE)

\* MetadataListValue.update(oldval, newval, api)
ListValue_update(m, oldval, newval, ctx) ==
    IF newval = oldval THEN Updated(ctx, FALSE)
    ELSE IF Len(newval.l) # 0
         THEN Updated(modifyMetadata(ctx, m.kind, newval.l), TRUE)
         ELSE Updated(deleteMetadata(ctx, m.kind), TRUE)

\* StringValue_update writing the value without comparing it
StringValue_update_always(m, oldval, newval, ctx) ==
    IF Len(newval.s) # 0
    THEN Updated(modifyMetadata(ctx, m.kind, <<newval.s>>), TRUE)
    ELSE IF newval = oldval THEN Updated(ctx, FALSE)
    ELSE Updated(deleteMetadata(ctx, m.kind), TRUE)

\* MetadataStringValue.update(oldval, newval, api)
StringValue_update(m, oldval, newval, ctx) ==
    IF newval = oldval THEN Updated(ctx, FALSE)
    ELSE IF Len(newval.s) # 0
         THEN Updated(modifyMetadata(ctx, m.kind, <<newval.s>>), TRUE)
         ELSE Updated(deleteMetadata(ctx, m.kind), TRUE)

\* m.update(oldval, newval, api), by the class of m
update(m, oldval, newval, ctx) ==
    CASE m.variant = "BinaryValue" -> BinaryValue_update(m, oldval, newval, ctx)
      [] m.variant = "BinaryPresence" -> BinaryPresence_update(m, oldval, newval, ctx)
      [] m.variant = "TernaryValue" -> TernaryValue_update(m, oldval, newval, ctx)
      [] m.variant = "ListValue" -> ListValue_update(m, oldval, newval, ctx)
      [] m.variant = "StringValue" -> StringValue_update(m, oldval, newval, ctx)

\* dict.get(key) of the task's metadata dict
Get(dict, key) == IF key \in DOMAIN dict THEN dict[key] ELSE PyNone

\* Metadata.meta_defaults()
meta_defaults == [k \in map_by_meta |-> default(by_meta(k))]

\* the value update_all and set_all pass on for a parameter: value or default
OrDefault(value, m) == PyOr(value, default(m))

\* Metadata.set_all(metadata, api): over the items of the dict, from item i
RECURSIVE set_all_from(_, _, _)
set_all_from(i, metadata, ctx) ==
    IF i > Len(MetaOptions) THEN ctx
    ELSE LET meta == MetaOptions[i]
             m == by_meta(meta)
             next == IF m # NoObject
                     THEN set(m, OrDefault(metadata[meta], m), ctx)
                     ELSE ctx
         IN  set_all_from(i + 1, metadata, next)

set_all(metadata, ctx) == set_all_from(1, metadata, ctx)

\* Metadata.update_all(old, new, api): over the registry, from entry i
RECURSIVE update_all_from(_, _, _, _)
update_all_from(i, old, new, acc) ==
    IF i > Len(Registry) THEN acc
    ELSE LET v == Registry[i]
             u == update(v, old[v.meta], OrDefault(Get(new, v.meta), v), acc.ctx)
         IN  update_all_from(i + 1, old, new,
                             [ctx |-> u.ctx, changed |-> acc.changed \/ u.ret])

\* update_all leaving alone the kinds the task gives no value for
RECURSIVE update_given_from(_, _, _, _)
update_given_from(i, old, new, acc) ==
    IF i > Len(Registry) THEN acc
    ELSE LET v == Registry[i]
             u == IF Get(new, v.meta) = PyNone
                  THEN Updated(acc.ctx, FALSE)
                  ELSE update(v, old[v.meta], Get(new, v.meta), acc.ctx)
         IN  update_given_from(i + 1, old, new,
                               [ctx |-> u.ctx, changed |-> acc.changed \/ u.ret])

update_all_given(old, new, ctx) ==
    update_given_from(1, old, new, [ctx |-> ctx, changed |-> FALSE])

update_all(old, new, ctx) == update_all_from(1, old, new, [ctx |-> ctx, changed |-> FALSE])

----------------------------------------------------------------------------
(* The zone snapshot and main().                                           *)

\* result["zone"] before the zone is read: name and exists only
NoZoneResult ==
    [name |-> ZoneName, exists |-> FALSE, kind |-> "", serial |-> 0, account |-> "",
     dnssec |-> FALSE, masters |-> <<>>,
     metadata |-> [k \in map_by_meta \cup ServerFields |-> PyNone]]

ZoneMetadata_nodefault(zone_info, zone_meta) ==
    [k \in map_by_meta \cup ServerFields |->
       CASE k = "api_rectify" -> PyBool(zone_info.api_rectify)
         [] k = "nsec3narrow" -> PyBool(zone_info.nsec3narrow)
         [] k = "nsec3param" -> PyStr(zone_info.nsec3param)
         [] k = "soa_edit" -> PyStr(zone_info.soa_edit)
         [] k = "soa_edit_api" -> PyStr(zone_info.soa_edit_api)
         [] OTHER ->
              LET o == by_meta(k)
              IN  IF zone_meta[o.kind].has
                  THEN result_from_api(o, zone_meta[o.kind].md)
                  ELSE PyNone]

\* z["metadata"] of build_zone_result, from the zone and its records
ZoneMetadata(zone_info, zone_meta) ==
    [k \in map_by_meta \cup ServerFields |->
       CASE k = "api_rectify" -> PyBool(zone_info.api_rectify)
         [] k = "nsec3narrow" -> PyBool(zone_info.nsec3narrow)
         [] k = "nsec3param" -> PyStr(zone_info.nsec3param)
         [] k = "soa_edit" -> PyStr(zone_info.soa_edit)
         [] k = "soa_edit_api" -> PyStr(zone_info.soa_edit_api)
         [] OTHER ->
              LET o == by_meta(k)
              IN  IF zone_meta[o.kind].has
                  THEN result_from_api(o, zone_meta[o.kind].md)
                  ELSE default(o)]

\* build_zone_result(api): listZone, listMetadata, and the snapshot
build_zone_result(ctx) ==
    LET c1 == ZoneCall(ctx, "listZone", EmptyStruct)
        zone_info == c1.remote
        c2 == Api(c1, Call("listMetadata", "", <<>>, EmptyStruct))
        zone_meta == c2.remote.meta
    IN  [ctx |-> c2,
         zone_info |-> zone_info,
         z |-> [name |-> ZoneName, exists |-> TRUE, kind |-> zone_info.kind,
                serial |-> zone_info.serial, account |-> zone_info.account,
                dnssec |-> zone_info.dnssec, masters |-> zone_info.masters,
                metadata |-> ZoneMetadata(zone_info, zone_meta)]]

\* ListSort with the lists compared as they are given
ListSort_unsorted(l) == [ret |-> PyList(l), list |-> l]

\* list.sort(): the list is sorted in place and None is returned
ListSort(l) == [ret |-> PyNone, list |-> Sorted(l)]

\* module.params of a task
NoProperties == [given |-> FALSE, kind |-> "", account |-> PyNone,
                 nameservers |-> PyNone, masters |-> PyNone]

Properties(kind, account, nameservers, masters) ==
    [given |-> TRUE, kind |-> kind, account |-> account,
     nameservers |-> nameservers, masters |-> masters]

NoMetadata == [given |-> FALSE, dict |-> [k \in MetaOptionSet |-> PyNone]]

\* how a run of main() ends: exit_json, fail_json, or an exception of a call
Outcome(ctx, how, changed, has_zone, zone) ==
    [remote |-> ctx.remote,
     calls |-> ctx.calls,
     result |-> IF ctx.failed
                THEN [how |-> "exception", changed |-> FALSE, has_zone |-> FALSE,
                      zone |-> NoZoneResult]
                ELSE [how |-> how, changed |-> changed, has_zone |-> has_zone,
                      zone |-> zone]]

\* CreateStruct with every list the task supplies, whatever the kind
CreateStruct_supplied(props) ==
    IF ~props.given THEN ZoneStruct({"name"}, "", "", PyNone, PyNone)
    ELSE ZoneStruct(
           {"name", "kind"}
             \cup (IF props.nameservers # PyNone THEN {"nameservers"} ELSE {})
             \cup (IF props.masters # PyNone THEN {"masters"} ELSE {})
             \cup (IF Truthy(props.account) THEN {"account"} ELSE {}),
           props.kind,
           IF Truthy(props.account) THEN props.account.s ELSE "",
           props.nameservers,
           props.masters)

\* CreateStruct with the account whether or not the task gives one
CreateStruct_account(props) ==
    IF ~props.given THEN ZoneStruct({"name"}, "", "", PyNone, PyNone)
    ELSE ZoneStruct(
           {"name", "kind", "account"}
             \cup (IF props.kind # "Slave" THEN {"nameservers"} ELSE {})
             \cup (IF props.kind = "Slave" THEN {"masters"} ELSE {}),
           props.kind,
           props.account.s,
           IF props.kind # "Slave" THEN props.nameservers ELSE PyNone,
           IF props.kind = "Slave" THEN props.masters ELSE PyNone)

\* zone_struct of the creation path
CreateStruct(props) ==
    IF ~props.given THEN ZoneStruct({"name"}, "", "", PyNone, PyNone)
    ELSE ZoneStruct(
           {"name"}
             \cup (IF props.kind # "" THEN {"kind"} ELSE {})
             \cup (IF props.kind # "" /\ props.kind # "Slave" THEN {"nameservers"} ELSE {})
             \cup (IF props.kind # "" /\ props.kind = "Slave" THEN {"masters"} ELSE {})
             \cup (IF Truthy(props.account) THEN {"account"} ELSE {}),
           props.kind,
           IF Truthy(props.account) THEN props.account.s ELSE "",
           IF props.kind # "" /\ props.kind # "Slave" THEN props.nameservers ELSE PyNone,
           IF props.kind # "" /\ props.kind = "Slave" THEN props.masters ELSE PyNone)

\* the comparison of the masters in the update path: whether they are put,
\* and the two lists after it
CompareMasters(props, zone_info) ==
    IF props.given /\ props.kind = "Slave" /\ Truthy(props.masters)
    THEN LET mp_masters == ListSort(props.masters.l)
             zi_masters == ListSort(zone_info.masters)
         IN  [differ |-> zi_masters.ret # mp_masters.ret,
              props_masters |-> mp_masters.list,
              zone_masters |-> zi_masters.list]
    ELSE [differ |-> FALSE, props_masters |-> props.masters.l,
          zone_masters |-> zone_info.masters]

\* zone_struct of the update path
UpdateStruct(props, zone_info) ==
    IF ~props.given THEN EmptyStruct
    ELSE LET cmp == CompareMasters(props, zone_info)
             account == Truthy(props.account) /\ zone_info.account # props.account.s
         IN  ZoneStruct(
               (IF props.kind # "" /\ zone_info.kind # props.kind THEN {"kind"} ELSE {})
                 \cup (IF cmp.differ THEN {"masters"} ELSE {})
                 \cup (IF account THEN {"account"} ELSE {}),
               IF props.kind # "" /\ zone_info.kind # props.kind THEN props.kind ELSE "",
               IF account THEN props.account.s ELSE "",
               PyNone,
               IF cmp.differ THEN PyList(cmp.props_masters) ELSE PyNone)

CreateZone_early(p, ctx) ==
    LET c1 == ZoneCall(ctx, "createZone", CreateStruct(p.properties))
        c2 == IF p.metadata.given THEN set_all(p.metadata.dict, c1) ELSE c1
        c3 == ZoneCall(c2, "listZones", EmptyStruct)
        b == build_zone_result(c3)
    IN  Outcome(b.ctx, "exit_json", TRUE, TRUE, b.z)

\* main(), state=present, the zone not found: create it
CreateZone(p, ctx) ==
    LET c1 == ZoneCall(ctx, "createZone", CreateStruct(p.properties))
        c2 == ZoneCall(c1, "listZones", EmptyStruct)
        c3 == IF p.metadata.given THEN set_all(p.metadata.dict, c2) ELSE c2
        b == build_zone_result(c3)
    IN  Outcome(b.ctx, "exit_json", TRUE, TRUE, b.z)

UpdateZone_metadata(p, b) ==
    LET zone_struct == UpdateStruct(p.properties, b.zone_info)
        cmp == CompareMasters(p.properties, b.zone_info)
        c1 == IF zone_struct.keys # {}
              THEN ZoneCall(b.ctx, "putZone", zone_struct)
              ELSE b.ctx
        u == update_all(b.z.metadata,
                        IF p.metadata.given THEN p.metadata.dict
                        ELSE [k \in MetaOptionSet |-> PyNone],
                        c1)
        changed == zone_struct.keys # {} \/ u.changed
        again == build_zone_result(u.ctx)
    IN  IF changed
        THEN Outcome(again.ctx, "exit_json", TRUE, TRUE, again.z)
        ELSE Outcome(u.ctx, "exit_json", FALSE, TRUE,
                     [b.z EXCEPT !.masters = cmp.zone_masters])

\* main(), state=present, the zone found and read as b: update it
UpdateZone(p, b) ==
    LET zone_struct == UpdateStruct(p.properties, b.zone_info)
        cmp == CompareMasters(p.properties, b.zone_info)
        c1 == IF zone_struct.keys # {}
              THEN ZoneCall(b.ctx, "putZone", zone_struct)
              ELSE b.ctx
        u == IF p.metadata.given
             THEN update_all(b.z.metadata, p.metadata.dict, c1)
             ELSE [ctx |-> c1, changed |-> FALSE]
        changed == zone_struct.keys # {} \/ u.changed
        again == build_zone_result(u.ctx)
    IN  IF changed
        THEN Outcome(again.ctx, "exit_json", TRUE, TRUE, again.z)
        ELSE Outcome(u.ctx, "exit_json", FALSE, TRUE,
                     [b.z EXCEPT !.masters = cmp.zone_masters])

ZoneNotFound_lenient(p, c1) ==
    IF p.state = "present"
    THEN CreateZone(p, c1)
    ELSE Outcome(c1, "exit_json", FALSE, TRUE, NoZoneResult)

\* main(), listZones matched no zone
ZoneNotFound(p, c1) ==
    CASE p.state \in {"exists", "absent"} ->
            Outcome(c1, "exit_json", FALSE, TRUE, NoZoneResult)
      [] p.state \in {"notify", "retrieve"} ->
            Outcome(c1, "fail_json", FALSE, TRUE, NoZoneResult)
      [] OTHER -> CreateZone(p, c1)

ZoneExists_update(p, b) == UpdateZone(p, b)

\* main(), state=exists, the zone found and read as b
ZoneExists(p, b) == Outcome(b.ctx, "exit_json", FALSE, TRUE, b.z)

ZoneAbsent_unchanged(p, b) ==
    Outcome(ZoneCall(b.ctx, "deleteZone", EmptyStruct),
            "exit_json", FALSE, TRUE, b.z)

\* main(), state=absent, the zone found and read as b
ZoneAbsent(p, b) ==
    Outcome(ZoneCall(b.ctx, "deleteZone", EmptyStruct),
            "exit_json", TRUE, TRUE, b.z)

ZoneNotify_unchecked(p, b) ==
    Outcome(ZoneCall(b.ctx, "notifyZone", EmptyStruct),
            "exit_json", TRUE, TRUE, b.z)

\* main(), state=notify, the zone found and read as b
ZoneNotify(p, b) ==
    IF b.zone_info.kind = "Native"
    THEN Outcome(b.ctx, "fail_json", FALSE, TRUE, b.z)
    ELSE Outcome(ZoneCall(b.ctx, "notifyZone", EmptyStruct),
                 "exit_json", TRUE, TRUE, b.z)

\* main(), state=retrieve, the zone found and read as b
ZoneRetrieve(p, b) ==
    IF b.zone_info.kind # "Slave"
    THEN Outcome(b.ctx, "fail_json", FALSE, TRUE, b.z)
    ELSE Outcome(ZoneCall(b.ctx, "axfrRetrieveZone", EmptyStruct),
                 "exit_json", TRUE, TRUE, b.z)

main_unchecked(p, r, failAt) ==
    LET start == Ctx(r, failAt)
        c1 == ZoneCall(start, "listZones", EmptyStruct)
        found == c1.remote.exists
        b == build_zone_result(c1)
    IN  IF ~found
        THEN ZoneNotFound(p, c1)
        ELSE CASE p.state = "exists" -> ZoneExists(p, b)
               [] p.state = "absent" -> ZoneAbsent(p, b)
               [] p.state = "notify" -> ZoneNotify(p, b)
               [] p.state = "retrieve" -> ZoneRetrieve(p, b)
               [] OTHER -> UpdateZone(p, b)

\* main() of a task with parameters p, against server state r
main(p, r, failAt) ==
    LET start == Ctx(r, failAt)
        c1 == ZoneCall(start, "listZones", EmptyStruct)
        found == c1.remote.exists
        b == build_zone_result(c1)
    IN  IF p.check_mode
        THEN Outcome(start, "exit_json", FALSE, FALSE, NoZoneResult)
        ELSE IF ~found
        THEN ZoneNotFound(p, c1)
        ELSE CASE p.state = "exists" -> ZoneExists(p, b)
               [] p.state = "absent" -> ZoneAbsent(p, b)
               [] p.state = "notify" -> ZoneNotify(p, b)
               [] p.state = "retrieve" -> ZoneRetrieve(p, b)
               [] OTHER -> UpdateZone(p, b)

----------------------------------------------------------------------------
(* The tasks and the server states the model is started with.              *)

Kinds == {"Native", "Master", "Slave"}

States == {"present", "absent", "exists", "notify", "retrieve"}

Task(state, check_mode, properties, metadata) ==
    [state |-> state, check_mode |-> check_mode,
     properties |-> properties, metadata |-> metadata]

NoTask == Task("", FALSE, NoProperties, NoMetadata)

\* the "properties" option: kind is required, the others default to None
PropertiesInputs ==
    {Properties(k, PyNone, n, m) :
       k \in Kinds,
       n \in {PyNone, PyList(<<"ns1.example.">>)},
       m \in {PyNone} \cup {PyList(l) : l \in Lists}}
      \cup {Properties(k, PyStr("ops"), PyNone, PyNone) : k \in Kinds}

SomeProperties == Properties("Native", PyNone, PyList(<<"ns1.example.">>), PyNone)

\* the values an option of the "metadata" option takes, by its type
OptionValues(option) ==
    CASE option = "soa_edit_dnsupdate" -> {PyStr("EPOCH")}
      [] option \in {"axfr_source", "gss_acceptor_principal", "gss_allow_axfr_principal"} ->
           {PyStr(""), PyStr("x")}
      [] option \in {"forward_dnsupdate", "ixfr", "notify_dnsupdate", "publish_cndskey",
                     "slave_renotify"} ->
           {PyBool(TRUE), PyBool(FALSE)}
      [] OTHER -> {PyList(l) : l \in Lists}

\* the "metadata" option with no option set: soa_edit_dnsupdate has the
\* default 'DEFAULT', every other option is None
DefaultMetadata ==
    [given |-> TRUE,
     dict |-> [k \in MetaOptionSet |->
                 IF k = "soa_edit_dnsupdate" THEN PyStr("DEFAULT") ELSE PyNone]]

\* the "metadata" option with at most one option set by the task
MetadataInputs ==
    {DefaultMetadata}
      \cup UNION {{[DefaultMetadata EXCEPT !.dict[k] = v] : v \in OptionValues(k)} :
                    k \in MetaOptionSet}

\* the tasks: every state, properties and metadata varied one at a time
Tasks ==
    {Task(s, c, NoProperties, NoMetadata) : s \in States, c \in BOOLEAN}
      \cup {Task(s, FALSE, SomeProperties, DefaultMetadata) : s \in States}
      \cup {Task("present", FALSE, pr, NoMetadata) : pr \in PropertiesInputs}
      \cup {Task("present", FALSE, pr, m) :
              pr \in {NoProperties, SomeProperties}, m \in MetadataInputs}

\* the records a server may hold for a kind
RecordValues(kind) ==
    LET o == by_kind(kind)
    IN  CASE o.variant = "ListValue" -> Lists \ {<<>>}
          [] o.variant = "BinaryPresence" -> {<<"">>}
          [] o.variant \in {"BinaryValue", "TernaryValue"} -> {<<"1">>, <<"0">>}
          [] OTHER -> {<<"x">>}

\* the metadata of a zone with at most one record
MetaInputs ==
    {NoMeta}
      \cup UNION {{[NoMeta EXCEPT ![k] = Record(md)] : md \in RecordValues(k)} :
                    k \in RemoteKinds}

Zone(kind, account, masters, meta) ==
    [NoZone EXCEPT !.exists = TRUE, !.kind = kind, !.account = account,
                   !.masters = masters, !.serial = 1, !.soa_edit_api = "DEFAULT",
                   !.meta = meta]

\* the server states a behaviour starts from: no zone, or a zone with its
\* properties varied, or a zone with its metadata varied
Remotes ==
    {NoZone}
      \cup {Zone(k, "", m, NoMeta) : k \in Kinds, m \in Lists}
      \cup {Zone(k, "old", <<>>, NoMeta) : k \in Kinds}
      \cup {Zone("Native", "", <<>>, meta) : meta \in MetaInputs}

NoResult == [how |-> "", changed |-> FALSE, has_zone |-> FALSE, zone |-> NoZoneResult]

----------------------------------------------------------------------------------------------------------------------------------------------
(* The state machine: one run of the module against the server.  The       *)
(* module keeps no state between runs; a run that follows another one      *)
(* meets the server as the earlier run left it.                            *)

Init ==
    /\ remote \in Remotes
    /\ pc = "idle"
    /\ params = NoTask
    /\ before = NoZone
    /\ calls = <<>>
    /\ result = NoResult
    /\ history = <<>>
    /\ failing = 0

\* the task starts: module.params is set
Start ==
    /\ pc = "idle"
    /\ \E p \in Tasks : params' = p
    /\ pc' = "started"
    /\ before' = remote
    /\ UNCHANGED <<remote, calls, result, history, failing>>

\* main() runs to its end
Main ==
    /\ pc = "started"
    /\ LET o == main(params, remote, failing)
       IN  /\ remote' = o.remote
           /\ calls' = o.calls
           /\ result' = o.result
    /\ pc' = "done"
    /\ UNCHANGED <<params, before, history, failing>>

Next == Start \/ Main

Spec == Init /\ [][Next]_vars

\* the same task is run again: a new process, the same module.params
Again ==
    /\ pc = "done"
    /\ Len(history) + 1 < MaxRuns
    /\ history' = Append(history, [before |-> before, calls |-> calls, result |-> result])
    /\ pc' = "started"
    /\ before' = remote
    /\ calls' = <<>>
    /\ result' = NoResult
    /\ failing' = 0
    /\ UNCHANGED <<remote, params>>

NextRerun == Start \/ Main \/ Again

SpecRerun == Init /\ [][NextRerun]_vars

\* the server states the runs with a failing remote call start from
FailRemotes ==
    {NoZone}
      \cup {Zone(k, "", <<>>, NoMeta) : k \in Kinds}
      \cup {Zone("Native", "", <<>>, [NoMeta EXCEPT ![k] = Record(<<"1">>)]) :
              k \in {"IXFR", "SLAVE-RENOTIFY", "TSIG-ALLOW-AXFR"}}

InitFail ==
    /\ remote \in FailRemotes
    /\ pc = "idle"
    /\ params = NoTask
    /\ before = NoZone
    /\ calls = <<>>
    /\ result = NoResult
    /\ history = <<>>
    /\ failing = 0

\* the task starts, and one of the remote calls it is going to make raises
StartFailing ==
    /\ pc = "idle"
    /\ \E p \in Tasks, n \in 1..MaxFailAt :
         /\ n <= Len(main(p, remote, 0).calls)
         /\ params' = p
         /\ failing' = n
    /\ pc' = "started"
    /\ before' = remote
    /\ UNCHANGED <<remote, calls, result, history>>

NextFail == StartFailing \/ Main \/ Again

SpecFail == InitFail /\ [][NextFail]_vars

----------------------------------------------------------------------------
(* What the claims speak of.                                               *)

\* the snapshot a read of the server yields
Snapshot(r) == build_zone_result(Ctx(r, 0)).z

\* a run of state=present has ended, not in check mode
PresentDone == pc = "done" /\ params.state = "present" /\ ~params.check_mode

\* ... and it ended with exit_json
PresentOk == PresentDone /\ result.how = "exit_json"

\* the run found no zone / found the zone
CreatedRun == PresentOk /\ ~before.exists

UpdatedRun == PresentOk /\ before.exists

CallsOp(op) == SelectSeq(calls, LAMBDA c : c.op = op)

\* the modifyMetadata and deleteMetadata calls of the run for a kind
CallsKind(kind) == SelectSeq(calls, LAMBDA c : c.op \in MetadataOps /\ c.kind = kind)

\* the value the run observed for a registered kind before it changed anything
Observed(m) == IF before.exists THEN Snapshot(before).metadata[m.meta] ELSE default(m)

\* the value the task gives for a registered kind (None: no value)
Desired(m) == Get(params.metadata.dict, m.meta)

Registered == {Registry[i] : i \in RegIdx}

----------------------------------------------------------------------------
(* C1..C10                                                                 *)

\* C1: state=present run twice in a row with the same task, from a server
\* without the zone: the first run reports changed=true, the second
\* changed=false, and both report the same zone snapshot.
C1_PresentTwice ==
    (/\ PresentOk
     /\ Len(history) = 1
     /\ ~history[1].before.exists
     /\ history[1].result.how = "exit_json")
    => /\ history[1].result.changed
       /\ ~result.changed
       /\ result.zone = history[1].result.zone

\* the key of the snapshot that shows an option of the task: the option the
\* argument spec spells publish_cndskey is the documented publish_cdnskey
SnapshotKey(option) ==
    IF option = "publish_cndskey" THEN "publish_cdnskey" ELSE option

\* C2: after a state=present run that ended without failure, the snapshot
\* read from the server equals the task on kind, account (when non-empty),
\* masters (when the kind is Slave) and every metadata option given a value.
C2_Converged ==
    PresentOk =>
      LET z == Snapshot(remote)
          pr == params.properties
          md == params.metadata
      IN  /\ pr.given =>
               /\ z.kind = pr.kind
               /\ Truthy(pr.account) => z.account = pr.account.s
               /\ (pr.kind = "Slave" /\ pr.masters # PyNone)
                    => IsPermutation(z.masters, pr.masters.l)
          /\ md.given =>
               \A k \in MetaOptionSet :
                  md.dict[k] # PyNone => z.metadata[SnapshotKey(k)] = md.dict[k]

\* C3: in an update with desired kind Slave and desired masters that differ
\* as a set from the observed masters, putZone is issued with the masters
\* and changed=true is reported.
C3_MastersPut ==
    (/\ UpdatedRun
     /\ params.properties.given
     /\ params.properties.kind = "Slave"
     /\ params.properties.masters # PyNone
     /\ Range(params.properties.masters.l) # Range(before.masters))
    => /\ \E i \in 1..Len(calls) :
            calls[i].op = "putZone" /\ "masters" \in calls[i].zs.keys
       /\ result.changed

\* the kind, the account and the metadata of the task match the zone found
RestMatches ==
    /\ params.properties.kind = before.kind
    /\ Truthy(params.properties.account)
         => params.properties.account.s = before.account
    /\ params.metadata.given
         => \A m \in Registered : OrDefault(Desired(m), m) = Observed(m)

\* C4: in an update of a Slave zone whose observed masters are a
\* permutation of the desired masters, the rest matching, no putZone is
\* issued and changed=false is reported.
C4_MastersPermutation ==
    (/\ UpdatedRun
     /\ params.properties.given
     /\ params.properties.kind = "Slave"
     /\ params.properties.masters # PyNone
     /\ IsPermutation(params.properties.masters.l, before.masters)
     /\ RestMatches)
    => /\ CallsOp("putZone") = <<>>
       /\ ~result.changed

C4_Witness ==
    /\ UpdatedRun
     /\ params.properties.given
     /\ params.properties.kind = "Slave"
     /\ params.properties.masters # PyNone
     /\ IsPermutation(params.properties.masters.l, before.masters)
     /\ params.properties.masters.l # before.masters
     /\ RestMatches
     /\ ~result.changed

\* C5: in an update, a list-valued kind whose desired list is a permutation
\* of the observed list gets no modifyMetadata and no deleteMetadata call.
C5_ListPermutation ==
    UpdatedRun /\ params.metadata.given
      => \A m \in Registered :
            (/\ m.variant = "ListValue"
             /\ Desired(m) # PyNone
             /\ IsPermutation(Desired(m).l, Observed(m).l))
            => CallsKind(m.kind) = <<>>

\* C6: in an update with a metadata mapping that has no value for a
\* registered kind which the server holds at a non-default value, the kind
\* is deleted, reads as its default afterwards, and changed=true is reported.
C6_OmissionResets ==
    UpdatedRun /\ params.metadata.given
      => \A m \in Registered :
            (Desired(m) = PyNone /\ Observed(m) # default(m))
            => /\ CallsKind(m.kind) = <<Call("deleteMetadata", m.kind, <<>>, EmptyStruct)>>
               /\ Snapshot(remote).metadata[m.meta] = default(m)
               /\ result.zone.metadata[m.meta] = default(m)
               /\ result.changed

C6_Witness ==
    /\ UpdatedRun /\ params.metadata.given
    /\ \E m \in Registered :
          /\ Desired(m) = PyNone
          /\ Observed(m) # default(m)
          /\ m.variant = "ListValue"
          /\ ~remote.meta[m.kind].has
    /\ result.changed

\* C7: in an update of a BinaryValue or BinaryPresence kind observed true
\* and desired false, deleteMetadata is issued for the kind and no
\* modifyMetadata.
C7_DeleteOnFalse ==
    UpdatedRun /\ params.metadata.given
      => \A m \in Registered :
            (/\ m.variant \in {"BinaryValue", "BinaryPresence"}
             /\ Observed(m) = PyBool(TRUE)
             /\ Desired(m) = PyBool(FALSE))
            => CallsKind(m.kind) = <<Call("deleteMetadata", m.kind, <<>>, EmptyStruct)>>

C7_Witness ==
    /\ UpdatedRun /\ params.metadata.given
    /\ \E m \in Registered :
          /\ m.variant = "BinaryValue"
          /\ Observed(m) = PyBool(TRUE)
          /\ Desired(m) = PyBool(FALSE)
          /\ ~remote.meta[m.kind].has

\* the call the ternary kind is to get for a desired value
TernaryCall(m, value) ==
    IF value = PyNone THEN Call("deleteMetadata", m.kind, <<>>, EmptyStruct)
    ELSE IF value.b THEN Call("modifyMetadata", m.kind, <<"1">>, EmptyStruct)
    ELSE Call("modifyMetadata", m.kind, <<"0">>, EmptyStruct)

\* C8: for the ternary kind, in creation and in update, a desired value that
\* differs from the observed one gives deleteMetadata when it is None,
\* modifyMetadata "1" when true and modifyMetadata "0" when false.
C8_Ternary ==
    PresentOk /\ params.metadata.given
      => \A m \in Registered :
            (m.variant = "TernaryValue" /\ Desired(m) # Observed(m))
            => CallsKind(m.kind) = <<TernaryCall(m, Desired(m))>>

\* C9: no createZone payload and no putZone patch of state=present holds
\* nameservers when the target kind is Slave, or masters when it is Native
\* or Master.
C9_KindApplicability ==
    PresentDone
      => \A i \in 1..Len(calls) :
            calls[i].op \in {"createZone", "putZone"}
            => /\ params.properties.kind = "Slave"
                    => "nameservers" \notin calls[i].zs.keys
               /\ params.properties.kind \in {"Native", "Master"}
                    => "masters" \notin calls[i].zs.keys

C9_Witness ==
    /\ CreatedRun
    /\ params.properties.kind = "Slave"
    /\ params.properties.nameservers # PyNone
    /\ params.properties.masters # PyNone
    /\ CallsOp("createZone") # <<>>
    /\ CallsOp("createZone")[1].zs.keys = {"name", "kind", "masters"}

\* the createZone payload holds each optional key only when it applies
OptionalKeysApply(zs) ==
    /\ "name" \in zs.keys
    /\ "nameservers" \in zs.keys => zs.kind # "Slave"
    /\ "masters" \in zs.keys => zs.kind = "Slave"
    /\ "account" \in zs.keys => zs.account # ""

\* C10, as claimed: creation issues exactly one createZone whose payload
\* holds name and kind, nameservers only if the kind is not Slave, masters
\* only if it is Slave, account only if non-empty; the run reports
\* changed=true and exists=true.
C10_Creation_claimed ==
    CreatedRun
      => /\ Len(CallsOp("createZone")) = 1
         /\ "kind" \in CallsOp("createZone")[1].zs.keys
         /\ OptionalKeysApply(CallsOp("createZone")[1].zs)
         /\ result.changed
         /\ result.zone.exists

\* C10, amended: the payload holds kind when the task has properties (and
\* then the kind of the task); without properties it holds the name alone.
C10_Creation ==
    CreatedRun
      => /\ Len(CallsOp("createZone")) = 1
         /\ LET zs == CallsOp("createZone")[1].zs
            IN  /\ params.properties.given
                     => "kind" \in zs.keys /\ zs.kind = params.properties.kind
                /\ ~params.properties.given => zs.keys = {"name"}
                /\ OptionalKeysApply(zs)
         /\ result.changed
         /\ result.zone.exists

C10_Witness ==
    /\ CreatedRun
    /\ params.properties.given
    /\ params.properties.kind = "Native"
    /\ CallsOp("createZone")[1].zs.keys = {"name", "kind", "nameservers"}
    /\ result.changed
    /\ result.zone.exists
    /\ remote.exists

----------------------------------------------------------------------------
(* C11..C20                                                                *)

\* a run has ended, not in check mode
Done == pc = "done" /\ ~params.check_mode

\* the run made one remote call, listZones
OnlyListZones == Len(calls) = 1 /\ calls[1].op = "listZones"

\* C11: when listZones matches no zone, state=present goes on to createZone;
\* state=exists and state=absent end with exit_json, changed=false and
\* zone.exists=false after no further remote call; state=notify and
\* state=retrieve end with fail_json after no further remote call.
C11_ZeroMatch ==
    Done /\ ~before.exists
      => /\ params.state = "present"
              => /\ Len(calls) >= 2
                 /\ calls[1].op = "listZones"
                 /\ calls[2].op = "createZone"
         /\ params.state \in {"exists", "absent"}
              => /\ result.how = "exit_json"
                 /\ ~result.changed
                 /\ result.has_zone
                 /\ ~result.zone.exists
                 /\ OnlyListZones
                 /\ remote = before
         /\ params.state \in {"notify", "retrieve"}
              => /\ result.how = "fail_json"
                 /\ OnlyListZones
                 /\ remote = before

C11_Witness ==
    /\ Done
    /\ ~before.exists
    /\ params.state = "retrieve"
    /\ result.how = "fail_json"
    /\ OnlyListZones

\* C12: state=notify on an existing Native zone, and state=retrieve on an
\* existing Native or Master zone, end with fail_json, make no mutating
\* remote call and leave the server as it was.
C12_VerbApplicability ==
    (/\ Done
     /\ before.exists
     /\ \/ params.state = "notify" /\ before.kind = "Native"
        \/ params.state = "retrieve" /\ before.kind \in {"Native", "Master"})
      => /\ result.how = "fail_json"
         /\ \A i \in 1..Len(calls) : calls[i].op \notin MutatingOps
         /\ remote = before

C12_Witness ==
    /\ Done
    /\ before.exists
    /\ params.state = "notify"
    /\ before.kind = "Native"
    /\ result.how = "fail_json"
    /\ Len(calls) = 3

\* C13: state=absent on an existing zone makes exactly one deleteZone call
\* and reports changed=true; state=absent run again right after it, or
\* against a zone that never existed, ends with exit_json, makes no
\* deleteZone call and reports changed=false.
C13_AbsentIdempotent ==
    Done /\ params.state = "absent"
      => /\ result.how = "exit_json"
         /\ before.exists
              => /\ Len(CallsOp("deleteZone")) = 1
                 /\ result.changed
                 /\ ~remote.exists
         /\ ~before.exists
              => /\ CallsOp("deleteZone") = <<>>
                 /\ ~result.changed
                 /\ remote = before
         /\ history # <<>> => ~before.exists

C13_Witness ==
    /\ Done
    /\ params.state = "absent"
    /\ Len(history) = 1
    /\ history[1].before.exists
    /\ history[1].result.changed
    /\ result.how = "exit_json"
    /\ ~result.changed
    /\ CallsOp("deleteZone") = <<>>

\* C14: whatever the server holds and whatever properties and metadata the
\* task gives, state=exists makes only the read calls listZones, listZone
\* and listMetadata, leaves the server as it was and reports changed=false.
C14_ExistsReadOnly ==
    Done /\ params.state = "exists"
      => /\ \A i \in 1..Len(calls) : calls[i].op \in {"listZones", "listZone", "listMetadata"}
         /\ remote = before
         /\ result.how = "exit_json"
         /\ ~result.changed

C14_Witness ==
    /\ Done
    /\ params.state = "exists"
    /\ before.exists
    /\ params.properties.given
    /\ params.metadata.given
    /\ Len(calls) = 3
    /\ ~result.changed

\* the server state the reported snapshot was read from: after the changes
\* of state=present, else as the run found it
SnapshotSource == IF params.state = "present" /\ result.changed THEN remote ELSE before

C16_ExistsAccurate ==
    Done /\ result.how = "exit_json"
      => /\ result.has_zone
         /\ result.zone.exists <=> remote.exists

\* the keys of the property patch of a task against the zone it found: kind
\* when it differs, masters when the task is for a Slave zone and its
\* masters differ as collections, account when given and different
PropertyPatch ==
    LET props == params.properties
    IN  IF ~props.given THEN {}
        ELSE (IF props.kind # before.kind THEN {"kind"} ELSE {})
               \cup (IF /\ props.kind = "Slave"
                        /\ Truthy(props.masters)
                        /\ ~IsPermutation(props.masters.l, before.masters)
                     THEN {"masters"} ELSE {})
               \cup (IF Truthy(props.account) /\ props.account.s # before.account
                     THEN {"account"} ELSE {})

\* C19: state=present on an existing zone calls putZone exactly when the
\* property patch is not empty, and then once; the reported changed is true
\* exactly when the patch is not empty or some metadata kind received a
\* modifyMetadata or deleteMetadata call.
C19_ChangedFlag ==
    UpdatedRun
      => /\ Len(CallsOp("putZone")) <= 1
         /\ Len(CallsOp("putZone")) = 1 <=> PropertyPatch # {}
         /\ result.changed
              <=> \/ PropertyPatch # {}
                  \/ \E i \in 1..Len(calls) : calls[i].op \in MetadataOps

\* the value a task with a metadata mapping wants for a registered kind:
\* the given value, or the default of the variant when none is given
EffectiveDesired(m) == IF Desired(m) = PyNone THEN default(m) ELSE Desired(m)

\* C20: state=present on an existing zone with a metadata mapping makes
\* exactly one modifyMetadata or deleteMetadata call for each registered
\* kind whose observed value differs from its effective desired value, and
\* no such call for a kind whose values are equal.
C20_MinimalChange ==
    UpdatedRun /\ params.metadata.given
      => \A m \in Registered :
           Len(CallsKind(m.kind)) = IF Observed(m) # EffectiveDesired(m) THEN 1 ELSE 0

\* the first run of the task met a zone-less server, created the zone and
\* then raised; the task has been run again, with no call failing
RerunAfterFailedCreation ==
    /\ Done
    /\ params.state = "present"
    /\ Len(history) = 1
    /\ ~history[1].before.exists
    /\ history[1].result.how = "exception"
    /\ Len(history[1].calls) > 2
    /\ history[1].calls[2].op = "createZone"

\* C17: when state=present raises after createZone succeeded (so possibly
\* before all the metadata asked for was set), the zone created and the
\* metadata already written stay on the server, and the same task run
\* again with no failure leaves the zone with the kind, account, masters
\* and metadata that a run with no failure would have left.
C17_RerunConverges ==
    RerunAfterFailedCreation
      => LET first == history[1]
             whole == main(params, first.before, 0)
         IN  /\ before.exists
             /\ \A i \in 1..(Len(first.calls) - 1) :
                  first.calls[i].op = "modifyMetadata"
                    => before.meta[first.calls[i].kind] = Record(first.calls[i].md)
             /\ result.how = "exit_json"
             /\ remote.exists
             /\ remote.kind = whole.remote.kind
             /\ remote.account = whole.remote.account
             /\ remote.masters = whole.remote.masters
             /\ remote.meta = whole.remote.meta

C17_Witness ==
    /\ RerunAfterFailedCreation
    /\ Len(history[1].calls) = 5
    /\ history[1].calls[4].op = "modifyMetadata"
    /\ history[1].calls[5].op = "modifyMetadata"
    /\ before.meta[history[1].calls[4].kind].has
    /\ ~before.meta[history[1].calls[5].kind].has
    /\ remote.meta[history[1].calls[5].kind].has
    /\ result.changed

\* C18: when a remote call raises, the run ends there: the calls it made
\* are the calls of a run with no failure up to the failing one, which is
\* made once, and no call follows it.
C18_FailureTerminal ==
    pc = "done" /\ failing > 0
      => /\ result.how = "exception"
         /\ Len(calls) = failing
         /\ calls = SubSeq(main(params, before, 0).calls, 1, failing)

C18_Witness ==
    /\ pc = "done"
    /\ failing = 4
    /\ result.how = "exception"
    /\ calls[4].op = "putZone"
    /\ Len(main(params, before, 0).calls) > 4
    /\ remote = before

----------------------------------------------------------------------------
(* C21..C25                                                                *)

\* C21: state=present on an existing zone with properties and no metadata
\* mapping makes no modifyMetadata and no deleteMetadata call and leaves
\* every metadata record of the server as it was; when the properties are
\* {kind: K} alone and K is not the kind of the zone, putZone is called
\* exactly once, with {kind: K}, and changed=true is reported.
C21_PropertiesOnly ==
    UpdatedRun /\ params.properties.given /\ ~params.metadata.given
      => /\ \A i \in 1..Len(calls) : calls[i].op \notin MetadataOps
         /\ remote.meta = before.meta
         /\ (/\ params.properties = Properties(params.properties.kind, PyNone, PyNone, PyNone)
             /\ params.properties.kind # before.kind)
              => /\ Len(CallsOp("putZone")) = 1
                 /\ CallsOp("putZone")[1].zs.keys = {"kind"}
                 /\ CallsOp("putZone")[1].zs.kind = params.properties.kind
                 /\ remote.kind = params.properties.kind
                 /\ result.changed

C21_Witness ==
    /\ UpdatedRun
    /\ ~params.metadata.given
    /\ params.properties = Properties("Master", PyNone, PyNone, PyNone)
    /\ before.kind = "Native"
    /\ before.meta["IXFR"].has
    /\ remote.meta = before.meta
    /\ Len(CallsOp("putZone")) = 1
    /\ result.changed

\* C22: state=present on an existing zone reads the snapshot a second time
\* (listZone and listMetadata) after its changes exactly when changed is
\* true; when nothing changed it makes one listZone and one listMetadata
\* call and reports the snapshot as it was read before the comparison.
C22_RereadOnChange ==
    UpdatedRun
      => /\ Len(CallsOp("listZone")) = IF result.changed THEN 2 ELSE 1
         /\ Len(CallsOp("listMetadata")) = IF result.changed THEN 2 ELSE 1
         /\ result.changed
              => /\ calls[Len(calls) - 1].op = "listZone"
                 /\ calls[Len(calls)].op = "listMetadata"
                 /\ result.zone = Snapshot(remote)
         /\ ~result.changed => result.zone = Snapshot(before)

\* C23: when state=present creates the zone, the remote calls after the
\* first listZones are, in this order: createZone, listZones, the
\* modifyMetadata calls of set_all, then listZone and listMetadata of the
\* reported snapshot; no metadata call comes before createZone and the
\* second listZones.
C23_CreationOrder ==
    CreatedRun
      => /\ Len(calls) >= 5
         /\ calls[1].op = "listZones"
         /\ calls[2].op = "createZone"
         /\ calls[3].op = "listZones"
         /\ \A i \in 4..(Len(calls) - 2) : calls[i].op = "modifyMetadata"
         /\ calls[Len(calls) - 1].op = "listZone"
         /\ calls[Len(calls)].op = "listMetadata"
         /\ ~params.metadata.given => Len(calls) = 5

C23_Witness ==
    /\ CreatedRun
    /\ params.metadata.given
    /\ Len(calls) = 7
    /\ calls[4].op = "modifyMetadata"
    /\ calls[5].op = "modifyMetadata"
    /\ calls[4].kind # calls[5].kind

\* a run of state=present has ended right after a run of the same task
\* that ended with exit_json
PresentAgain ==
    /\ PresentDone
    /\ history # <<>>
    /\ history[Len(history)].result.how = "exit_json"

\* C24: whatever the server held at first and whatever the task asks for,
\* a state=present run right after a successful state=present run of the
\* same task makes no createZone, putZone, modifyMetadata or deleteMetadata
\* call and reports changed=false.
C24_PresentIdempotent ==
    PresentAgain
      => /\ result.how = "exit_json"
         /\ \A i \in 1..Len(calls) : calls[i].op \notin MutatingOps
         /\ remote = before
         /\ ~result.changed

C24_Witness ==
    /\ PresentAgain
    /\ Len(history) = 1
    /\ history[1].before.exists
    /\ history[1].before.meta["IXFR"].has
    /\ history[1].result.changed
    /\ CallsOp("deleteMetadata") = <<>>
    /\ \E i \in 1..Len(history[1].calls) : history[1].calls[i].op = "deleteMetadata"
    /\ ~result.changed

\* C25: in check mode, whatever the state asked for and whatever the server
\* holds, the run makes no remote call at all, leaves the server as it was
\* and reports changed=false.
C25_CheckModeInert ==
    pc = "done" /\ params.check_mode
      => /\ calls = <<>>
         /\ remote = before
         /\ result.how = "exit_json"
         /\ ~result.changed

C25_Witness ==
    /\ pc = "done"
    /\ params.check_mode
    /\ params.state = "absent"
    /\ before.exists
    /\ remote.exists
    /\ calls = <<>>
    /\ ~result.changed

====
